---- MODULE Spec2Model ----
(***************************************************************************)
(* CodeShield (git-sakshii/Tech-Wizards): the scan orchestration of        *)
(* src/server/server.js (scanRepository, POST /api/scan/file, the results  *)
(* endpoint), the simulated scan of src/server/repoScanner.js              *)
(* (updateScanProgress, finalizeScan) and the scan engine scanCode.        *)
(*                                                                         *)
(* The database is the pair (scans, vulns).  Background jobs advance one   *)
(* await at a time.  Scan requests are admitted one after another (a new   *)
(* scan is submitted when the previous background job has finished).  The  *)
(* read endpoints change nothing: they are functions of the database.      *)
(***************************************************************************)
EXTENDS Integers, Sequences, FiniteSets, TLC

VARIABLES
  scans,     \* Scan collection: scanId -> document
  vulns,     \* Vulnerability collection, in insertion order
  repo,      \* scanRepository jobs: scanId -> locals of the async function
  sim,       \* updateScanProgress jobs: scanId -> closure state
  req,       \* the file of the last POST /api/scan/file request
  resp,      \* the response to the last POST request
  lang,      \* SpecLang: the last (file name -> language) mapping of a caller
  eng,       \* SpecEngine: the last call of the scan engine and what it returned
  client,    \* the browser: a page, its status poller and the requests in flight
  auth       \* User and OTP collections, and the last answer of an auth route

vars == <<scans, vulns, repo, sim, req, resp, lang, eng, client, auth>>

----------------------------------------------------------------------------
\* Bounds of the model

\* longest filePaths array of a repository scan request
MaxFiles == 2
\* number of scans created in one behaviour
MaxScans == 2
\* progress writes of one interval timer that are in flight at the same time
MaxWrites == 1

----------------------------------------------------------------------------
\* Source text.  A text is a sequence of lines, a line a sequence of tokens;
\* "ws" is white space, "plain" harmless code, the others are what a rule's
\* pattern matches.  <<>> is the empty string.

EmptyCode == <<>>
BlankCode == << <<"ws">> >>
CleanCode == << <<"plain">> >>
SqliCode == << <<"sqli">> >>
MixedCode == << <<"cookie">>, <<"plain">>, <<"sqli", "sqli">> >>

\* String.prototype.trim() followed by .length === 0
IsBlank(code) == \A i \in 1..Len(code) : \A p \in 1..Len(code[i]) : code[i][p] = "ws"

\* variant of FileIsEmpty: the test without the trim
FileIsEmptyUntrimmed(code) == code = EmptyCode

\* POST /api/scan/file: !code || code.trim().length === 0
FileIsEmpty(code) == code = EmptyCode \/ IsBlank(code)

----------------------------------------------------------------------------
\* The scan engine: securityScanner.scanCode(code, language).

Sentinel == "No Issues Detected"

\* Rule Catalog, in insertion order.  languages = {} means every language.
Rules ==
  << [id |-> "sql-injection", vulnerabilityType |-> "SQL Injection",
      severity |-> "critical", languages |-> {}, pattern |-> "sqli"],
     [id |-> "insecure-cookie", vulnerabilityType |-> "Insecure Cookie",
      severity |-> "medium", languages |-> {"javascript", "typescript"},
      pattern |-> "cookie"],
     [id |-> "unsafe-deserialization", vulnerabilityType |-> "Unsafe Deserialization",
      severity |-> "high", languages |-> {"python"}, pattern |-> "pickle"] >>

\* variant of RulesFor: the whole catalog for every language
RulesForAnyLanguage(language) == Rules

\* rulesFor(language): the applicable rules, catalog order kept
RulesFor(language) ==
  SelectSeq(Rules, LAMBDA r : r.languages = {} \/ language \in r.languages)

\* the positions (1-based) of a line at which the rule's pattern matches
MatchPositions(rule, line) ==
  SelectSeq([p \in 1..Len(line) |-> p], LAMBDA p : line[p] = rule.pattern)

\* the raw matches of one rule on one line, one per position
RawMatchesOfLine(rule, code, n) ==
  LET pos == MatchPositions(rule, code[n])
  IN [k \in 1..Len(pos) |->
        [ruleId |-> rule.id, line |-> n, column |-> pos[k] - 1]]

RECURSIVE RawMatchesOfRule(_, _, _)
\* the raw matches of one rule on lines n..Len(code)
RawMatchesOfRule(rule, code, n) ==
  IF n > Len(code) THEN <<>>
  ELSE RawMatchesOfLine(rule, code, n) \o RawMatchesOfRule(rule, code, n + 1)

RECURSIVE MatchFrom(_, _, _)
\* the raw matches of rules k..Len(rules), rule by rule, line by line
MatchFrom(rules, code, k) ==
  IF k > Len(rules) THEN <<>>
  ELSE RawMatchesOfRule(rules[k], code, 1) \o MatchFrom(rules, code, k + 1)

\* match(text, language, catalog)
Match(code, language) == MatchFrom(RulesFor(language), code, 1)

RuleById(id) == CHOOSE r \in {Rules[k] : k \in 1..Len(Rules)} : r.id = id

\* variant of ResolveFix: no fallback, the empty text for an unregistered type
ResolveFixRegisteredOnly(type) ==
  IF \E k \in 1..Len(Rules) : Rules[k].vulnerabilityType = type
  THEN <<"fix", type>>
  ELSE <<>>

\* resolveFix: the rule's fix template, the generic checklist otherwise
ResolveFix(type) ==
  IF \E k \in 1..Len(Rules) : Rules[k].vulnerabilityType = type
  THEN <<"fix", type>>
  ELSE <<"generic-checklist">>

\* the seed of the finding ids of one call: a fingerprint of (code, language)
Seed(code, language) == <<code, language>>

\* variant of Aggregate: one finding per raw match
AggregateAll(raw, code, language) ==
  [k \in 1..Len(raw) |->
     LET r == RuleById(raw[k].ruleId)
     IN [id |-> <<"finding", Seed(code, language), raw[k].ruleId, raw[k].line, k - 1>>,
         type |-> r.vulnerabilityType,
         severity |-> r.severity,
         line |-> raw[k].line,
         suggestedFix |-> ResolveFix(r.vulnerabilityType)]]

\* aggregate: one finding per (ruleId, line), the first raw match kept
Aggregate(raw, code, language) ==
  LET first == SelectSeq([k \in 1..Len(raw) |-> k],
                 LAMBDA k : \A j \in 1..(k - 1) :
                    <<raw[j].ruleId, raw[j].line>> # <<raw[k].ruleId, raw[k].line>>)
      occ(k) == Cardinality({j \in 1..(k - 1) : raw[first[j]].ruleId = raw[first[k]].ruleId})
  IN [k \in 1..Len(first) |->
        LET m == raw[first[k]]
            r == RuleById(m.ruleId)
        IN [id |-> <<"finding", Seed(code, language), m.ruleId, m.line, occ(k)>>,
            type |-> r.vulnerabilityType,
            severity |-> r.severity,
            line |-> m.line,
            suggestedFix |-> ResolveFix(r.vulnerabilityType)]]

\* the vulnerability-shaped record returned when nothing was found
NoIssues(code, language) ==
  [id |-> <<"finding", Seed(code, language), "none", 0, 0>>,
   type |-> Sentinel,
   severity |-> "low",
   line |-> 0,
   suggestedFix |-> <<"none">>]

\* scanCode(code, language).vulnerabilities
ScanCode(code, language) ==
  LET findings == Aggregate(Match(code, language), code, language)
  IN IF findings = <<>> THEN << NoIssues(code, language) >> ELSE findings

----------------------------------------------------------------------------
\* File names and the extension -> language mapping of the callers.
\* A file name is the sequence of the pieces of its base name between dots:
\* <<"a", "js">> is a.js, <<"", "py">> is .py, <<"py">> is py.

FileNames ==
  { <<"a", "js">>, <<"b", "JS">>, <<"c", "py">>, <<"e", "txt">>, <<"m", "js">>,
    <<"x", "ts">>, <<"x", "jsx">>, <<"x", "tsx">>, <<"x", "java">>, <<"x", "go">>,
    <<"x", "rb">>, <<"x", "php">>, <<"x", "cs">>, <<"x", "c">>, <<"x", "cpp">>,
    <<"x", "Py">>, <<"x", "TXT">>, <<"x", "md">>, <<"x", "rs">>, <<"x", "">>,
    <<"x", "constructor">>, <<"x", "__proto__">>, <<"x", "min", "js">>,
    <<"", "py">>, <<"py">>, <<"Makefile">>, <<"constructor">>,
    <<"index", "js">>, <<"x", "d", "ts">>, <<"x", "html">>, <<"x", "css">>,
    <<"x", "json">>, <<"x", "yml">>, <<"x", "sh">>, <<"x", "kt">>, <<"x", "swift">>,
    <<"", "gitignore">>, <<"README">>, <<"x", "toString">>, <<"x", "CPP">> }

\* String.prototype.toLowerCase on the strings of FileNames
ToLowerCase(s) ==
  CASE s = "JS" -> "js"
    [] s = "Py" -> "py"
    [] s = "TXT" -> "txt"
    [] s = "Makefile" -> "makefile"
    [] s = "README" -> "readme"
    [] s = "toString" -> "tostring"
    [] s = "CPP" -> "cpp"
    [] OTHER -> s

\* path.extname(filePath).substring(1): the text after the last dot of the
\* base name, "" when there is no dot or the only dot is the first character
ExtName(name) ==
  IF Len(name) >= 2 /\ ~(Len(name) = 2 /\ name[1] = "")
  THEN name[Len(name)]
  ELSE ""

\* the object literal languageMap / mapping
LanguageMap ==
  [ext \in {"js", "ts", "jsx", "tsx", "py", "java", "go", "rb", "php", "cs", "c", "cpp"} |->
     CASE ext = "js" -> "javascript"
       [] ext = "ts" -> "typescript"
       [] ext = "jsx" -> "javascript"
       [] ext = "tsx" -> "typescript"
       [] ext = "py" -> "python"
       [] ext = "java" -> "java"
       [] ext = "go" -> "go"
       [] ext = "rb" -> "ruby"
       [] ext = "php" -> "php"
       [] ext = "cs" -> "csharp"
       [] ext = "c" -> "c"
       [] ext = "cpp" -> "cpp"]

Undefined == "undefined"
\* the values an object literal inherits from Object.prototype under a
\* lower-case key: the Object constructor and the prototype itself
ObjectConstructor == "function Object() { [native code] }"
ObjectPrototype == "[object Object]"

\* languageMap[key]: an own property, an inherited one, or undefined
PropertyOf(key) ==
  IF key \in DOMAIN LanguageMap THEN LanguageMap[key]
  ELSE IF key = "constructor" THEN ObjectConstructor
  ELSE IF key = "__proto__" THEN ObjectPrototype
  ELSE Undefined

\* variant of ServerLanguage: 'unknown' as the default
ServerLanguageUnknown(name) ==
  LET fileExtension == ToLowerCase(ExtName(name))
  IN IF PropertyOf(fileExtension) # Undefined
     THEN PropertyOf(fileExtension)
     ELSE "unknown"

\* scanRepository: let language = 'javascript'; if (languageMap[ext]) language = languageMap[ext]
ServerLanguage(name) ==
  LET fileExtension == ToLowerCase(ExtName(name))
  IN IF PropertyOf(fileExtension) # Undefined
     THEN PropertyOf(fileExtension)
     ELSE "javascript"

\* scannerService.uploadAndScanFile + mapFileExtensionToLanguage:
\* file.name.split('.').pop().toLowerCase(), then mapping[extension] || 'javascript'
MapFileExtensionToLanguage(name) ==
  LET extension == ToLowerCase(name[Len(name)])
  IN IF PropertyOf(extension) # Undefined
     THEN PropertyOf(extension)
     ELSE "javascript"

\* POST /api/scan/file: req.body.language || 'javascript'
UploadLanguage(name, sendsLanguage) ==
  IF sendsLanguage THEN MapFileExtensionToLanguage(name) ELSE "javascript"

----------------------------------------------------------------------------
\* The database

Severities == {"low", "medium", "high", "critical"}

\* a Scan created without a summary: its fields read as undefined
UndefinedSummary == [undefined |-> TRUE]

CountSeverity(vs, sev) == Cardinality({k \in 1..Len(vs) : vs[k].severity = sev})

\* the summary object computed from an array of vulnerabilities
SummaryOf(vs) ==
  [totalVulnerabilities |-> Len(vs),
   criticalCount |-> CountSeverity(vs, "critical"),
   highCount |-> CountSeverity(vs, "high"),
   mediumCount |-> CountSeverity(vs, "medium"),
   lowCount |-> CountSeverity(vs, "low")]

ZeroSummary == SummaryOf(<<>>)

\* Vulnerability.find({ scanId })
FindVulnerabilities(db, scanId) == SelectSeq(db, LAMBDA v : v.scanId = scanId)

\* variant of IsDuplicate: a collection without the unique index
NeverDuplicate(db, doc) == FALSE

\* the unique index on vulnerabilityId: does save() reject the document?
IsDuplicate(db, doc) == \E k \in 1..Len(db) : db[k].vulnerabilityId = doc.vulnerabilityId

\* new Vulnerability({...}).save(): the collection after the save, unchanged
\* when the save is rejected
SaveVulnerability(db, doc) == IF IsDuplicate(db, doc) THEN db ELSE Append(db, doc)

\* Scan.findOneAndUpdate({ scanId }, update)
UpdateScan(db, scanId, update) ==
  [db EXCEPT ![scanId] = [f \in DOMAIN db[scanId] |->
                             IF f \in DOMAIN update THEN update[f] ELSE db[scanId][f]]]

\* crypto.randomBytes(16).toString('hex'): hi is the number written by the
\* first four hex digits, lo by the next four.  The draws of the model: one
\* id for the first scan; a later scan draws an unused id, one that starts
\* with the same four digits as the first or one that does not.
FirstScanId == [hi |-> 1, lo |-> 5]
ScanIds == { FirstScanId, [hi |-> 1, lo |-> 4], [hi |-> 2, lo |-> 9] }

NoRequest == [name |-> <<>>, code |-> <<>>]
NoResponse == [status |-> 0, route |-> "none"]
NoMapping == [caller |-> "none"]
NoCall == [op |-> "none", returned |-> FALSE]
\* no page is open in the browser
NoClient == [page |-> "none"]
\* no user has registered
NoAccounts == [users |-> <<>>, otps |-> <<>>, now |-> 0, answer |-> NoResponse]

\* no background job is running
Idle ==
  /\ \A s \in DOMAIN repo : repo[s].pc = "done"
  /\ \A s \in DOMAIN sim : sim[s].pc = "done" /\ sim[s].writes = <<>>

CanSubmit == Idle /\ Cardinality(DOMAIN scans) < MaxScans

\* the ids a new scan can draw
FreshScanIds == IF DOMAIN scans = {} THEN {FirstScanId} ELSE ScanIds \ DOMAIN scans

----------------------------------------------------------------------------
\* server.js: POST /api/scan/repository/files and scanRepository

\* the files of the cloned repository; m.js is selected but does not exist
RepoFiles ==
  [name \in { <<"a", "js">>, <<"c", "py">>, <<"e", "txt">> } |->
     CASE name = <<"a", "js">> -> SqliCode
       [] name = <<"c", "py">> -> MixedCode
       [] name = <<"e", "txt">> -> EmptyCode]

RepoPaths == DOMAIN RepoFiles \cup { <<"m", "js">> }

\* the filePaths arrays of the requests
FilePathArrays == UNION { [1..n -> RepoPaths] : n \in 0..MaxFiles }

\* variant of ProgressValue: the share of the files scaled to 100
ProgressValueOfHundred(totalProcessed, n) == 30 + ((totalProcessed * 100) \div n)

\* 30 + Math.floor((totalProcessed / filePaths.length) * 60)
ProgressValue(totalProcessed, n) == 30 + ((totalProcessed * 60) \div n)

\* variant of CollectFindings: every entry of the scan result is pushed
CollectFindingsUnfiltered(scanResult, filePath) ==
  [k \in 1..Len(scanResult) |->
     [id |-> scanResult[k].id, type |-> scanResult[k].type,
      severity |-> scanResult[k].severity, line |-> scanResult[k].line,
      suggestedFix |-> scanResult[k].suggestedFix, file |-> filePath]]

\* the findings of one file that scanRepository pushes: the sentinel entry
\* dropped, location.file filled in
CollectFindings(scanResult, filePath) ==
  LET real == SelectSeq(scanResult, LAMBDA v : v.type # Sentinel)
  IN [k \in 1..Len(real) |->
        [id |-> real[k].id, type |-> real[k].type, severity |-> real[k].severity,
         line |-> real[k].line, suggestedFix |-> real[k].suggestedFix,
         file |-> filePath]]

\* new Vulnerability({ vulnerabilityId: vuln.id, ..., status: 'open' })
NewVulnerability(vuln, scanId, file) ==
  [vulnerabilityId |-> vuln.id, scanId |-> scanId, type |-> vuln.type,
   severity |-> vuln.severity, file |-> file, line |-> vuln.line,
   suggestedFix |-> vuln.suggestedFix, status |-> "open"]

\* scanRepository has returned: its locals are gone; how it ended is kept
\* (what threw, and how many findings it held)
Returned(job) ==
  [pc |-> "done", filePaths |-> <<>>, totalProcessed |-> 0,
   vulnerabilities |-> <<>>, saved |-> 0, error |-> job.error,
   found |-> Len(job.vulnerabilities)]

\* the handler: validates, creates the Scan record, starts scanRepository
CreateRepositoryScan(scanId, filePaths) ==
  /\ scanId \notin DOMAIN scans
  /\ IF Len(filePaths) = 0
     THEN /\ resp' = [status |-> 400, route |-> "scan/repository/files"]
          /\ UNCHANGED <<scans, repo>>
     ELSE /\ scans' = [s \in DOMAIN scans \cup {scanId} |->
                         IF s = scanId
                         THEN [status |-> "initiated", progress |-> 0,
                               summary |-> ZeroSummary, kind |-> "repository"]
                         ELSE scans[s]]
          /\ repo' = [s \in DOMAIN repo \cup {scanId} |->
                        IF s = scanId
                        THEN [pc |-> "start", filePaths |-> filePaths,
                              totalProcessed |-> 0, vulnerabilities |-> <<>>,
                              saved |-> 0, error |-> "none", found |-> 0]
                        ELSE repo[s]]
          /\ resp' = [status |-> 200, route |-> "scan/repository/files", scanId |-> scanId]

\* the request of a caller the model does not follow further
StartRepositoryScan(scanId, filePaths) ==
  /\ CreateRepositoryScan(scanId, filePaths)
  /\ UNCHANGED <<vulns, sim, req, lang, eng, client, auth>>

\* the request as Spec admits it: when no background job is running
PostScanRepositoryFiles(scanId, filePaths) ==
  /\ CanSubmit
  /\ StartRepositoryScan(scanId, filePaths)

\* status: 'processing', progress: 10
RepoMarkProcessing(scanId) ==
  /\ repo[scanId].pc = "start"
  /\ scans' = UpdateScan(scans, scanId, [status |-> "processing", progress |-> 10])
  /\ repo' = [repo EXCEPT ![scanId].pc = "clone"]
  /\ UNCHANGED <<vulns, sim, req, resp, lang, eng, client, auth>>

\* git clone: resolves, or rejects into the inner catch
RepoClone(scanId, cloned) ==
  /\ repo[scanId].pc = "clone"
  /\ repo' = [repo EXCEPT ![scanId].pc = IF cloned THEN "cloned" ELSE "catch",
                          ![scanId].error = IF cloned THEN "none" ELSE "clone"]
  /\ UNCHANGED <<scans, vulns, sim, req, resp, lang, eng, client, auth>>

\* progress: 30
RepoProgress30(scanId) ==
  /\ repo[scanId].pc = "cloned"
  /\ scans' = UpdateScan(scans, scanId, [progress |-> 30])
  /\ repo' = [repo EXCEPT ![scanId].pc = "files"]
  /\ UNCHANGED <<vulns, sim, req, resp, lang, eng, client, auth>>

\* variant of RepoScanFile: the vulnerabilities array is one array shared by
\* the jobs that have not yet computed their summary
RepoScanFileSharedArray(scanId) ==
  /\ repo[scanId].pc = "files"
  /\ LET job == repo[scanId]
         filePath == job.filePaths[job.totalProcessed + 1]
         language == ServerLanguage(filePath)
     IN IF filePath \notin DOMAIN RepoFiles
        THEN /\ repo' = [repo EXCEPT ![scanId].pc = "catch", ![scanId].error = "read"]
             /\ UNCHANGED scans
        ELSE LET scanResult == ScanCode(RepoFiles[filePath], language)
                 done == job.totalProcessed + 1
                 pushed(s) == IF repo[s].pc \in {"start", "clone", "cloned", "files"}
                              THEN repo[s].vulnerabilities \o CollectFindings(scanResult, filePath)
                              ELSE repo[s].vulnerabilities
             IN /\ scans' = UpdateScan(scans, scanId,
                               [progress |-> ProgressValue(done, Len(job.filePaths))])
                /\ repo' = [s \in DOMAIN repo |->
                      IF s = scanId
                      THEN [job EXCEPT
                              !.vulnerabilities = pushed(s),
                              !.totalProcessed = done,
                              !.pc = IF done = Len(job.filePaths) THEN "summary" ELSE "files"]
                      ELSE [repo[s] EXCEPT !.vulnerabilities = pushed(s)]]
  /\ UNCHANGED <<vulns, sim, req, resp, lang, eng, client, auth>>

\* one iteration of the loop over filePaths: map the extension, read the
\* file, scan it, push its findings, write the progress
RepoScanFile(scanId) ==
  /\ repo[scanId].pc = "files"
  /\ LET job == repo[scanId]
         filePath == job.filePaths[job.totalProcessed + 1]
         language == ServerLanguage(filePath)
     IN IF filePath \notin DOMAIN RepoFiles
        THEN \* fs.readFileSync throws
             /\ repo' = [repo EXCEPT ![scanId].pc = "catch", ![scanId].error = "read"]
             /\ UNCHANGED scans
        ELSE LET scanResult == ScanCode(RepoFiles[filePath], language)
                 done == job.totalProcessed + 1
             IN /\ scans' = UpdateScan(scans, scanId,
                               [progress |-> ProgressValue(done, Len(job.filePaths))])
                /\ repo' = [repo EXCEPT
                      ![scanId].vulnerabilities = @ \o CollectFindings(scanResult, filePath),
                      ![scanId].totalProcessed = done,
                      ![scanId].pc = IF done = Len(job.filePaths) THEN "summary" ELSE "files"]
  /\ UNCHANGED <<vulns, sim, req, resp, lang, eng, client, auth>>

\* the summary is computed and written with status: 'completed', progress: 100
RepoComplete(scanId) ==
  /\ repo[scanId].pc = "summary"
  /\ scans' = UpdateScan(scans, scanId,
                 [status |-> "completed", progress |-> 100,
                  summary |-> SummaryOf(repo[scanId].vulnerabilities)])
  /\ repo' = [repo EXCEPT ![scanId] =
                  IF @.vulnerabilities = <<>> THEN Returned(@) ELSE [@ EXCEPT !.pc = "save"]]
  /\ UNCHANGED <<vulns, sim, req, resp, lang, eng, client, auth>>

\* one iteration of the loop that saves the vulnerabilities; a rejected save
\* throws into the inner catch; after the last save the function returns
RepoSaveVulnerability(scanId) ==
  /\ repo[scanId].pc = "save"
  /\ LET job == repo[scanId]
         vuln == job.vulnerabilities[job.saved + 1]
         doc == NewVulnerability(vuln, scanId, vuln.file)
     IN IF IsDuplicate(vulns, doc)
        THEN /\ repo' = [repo EXCEPT ![scanId].pc = "catch", ![scanId].error = "save"]
             /\ UNCHANGED vulns
        ELSE /\ vulns' = SaveVulnerability(vulns, doc)
             /\ repo' = [repo EXCEPT ![scanId] =
                   IF job.saved + 1 = Len(job.vulnerabilities)
                   THEN Returned(@)
                   ELSE [@ EXCEPT !.saved = job.saved + 1]]
  /\ UNCHANGED <<scans, sim, req, resp, lang, eng, client, auth>>

\* variant of RepoCatch: the catch that leaves the progress as it is
RepoCatchKeepsProgress(scanId) ==
  /\ repo[scanId].pc = "catch"
  /\ scans' = UpdateScan(scans, scanId, [status |-> "failed"])
  /\ repo' = [repo EXCEPT ![scanId] = Returned(@)]
  /\ UNCHANGED <<vulns, sim, req, resp, lang, eng, client, auth>>

\* variant of RepoCatch: the catch that logs the error and writes nothing
RepoCatchLogsOnly(scanId) ==
  /\ repo[scanId].pc = "catch"
  /\ repo' = [repo EXCEPT ![scanId] = Returned(@)]
  /\ UNCHANGED <<scans, vulns, sim, req, resp, lang, eng, client, auth>>

\* the inner catch: status: 'failed', progress: 0
RepoCatch(scanId) ==
  /\ repo[scanId].pc = "catch"
  /\ scans' = UpdateScan(scans, scanId, [status |-> "failed", progress |-> 0])
  /\ repo' = [repo EXCEPT ![scanId] = Returned(@)]
  /\ UNCHANGED <<vulns, sim, req, resp, lang, eng, client, auth>>

----------------------------------------------------------------------------
\* server.js: POST /api/scan/file and GET /api/scan/repository/:scanId/results

\* the uploaded files
Uploads ==
  { [name |-> <<"a", "js">>, code |-> SqliCode],
    [name |-> <<"x", "ts">>, code |-> MixedCode],
    [name |-> <<"x", "rs">>, code |-> CleanCode],
    [name |-> <<"x", "md">>, code |-> BlankCode],
    [name |-> <<"e", "txt">>, code |-> EmptyCode] }

\* the loop "for (const vuln of scanResult.vulnerabilities)": entries k.. are
\* saved one by one, the sentinel entry skipped; the first rejected save
\* throws and leaves the earlier documents in the collection
RECURSIVE SaveUploadFindings(_, _, _, _, _)
SaveUploadFindings(db, scanResult, k, scanId, file) ==
  IF k > Len(scanResult) THEN [db |-> db, thrown |-> FALSE]
  ELSE IF scanResult[k].type = Sentinel
       THEN SaveUploadFindings(db, scanResult, k + 1, scanId, file)
       ELSE LET doc == NewVulnerability(scanResult[k], scanId, file)
            IN IF IsDuplicate(db, doc)
               THEN [db |-> db, thrown |-> TRUE]
               ELSE SaveUploadFindings(SaveVulnerability(db, doc), scanResult,
                                       k + 1, scanId, file)

\* the body of the 200 response: the entries other than the sentinel, and
\* the counts over them
UploadResult(scanId, scanResult, file) ==
  LET real == SelectSeq(scanResult, LAMBDA v : v.type # Sentinel)
  IN [status |-> 200, route |-> "scan/file", scanId |-> scanId,
      scanStatus |-> "completed",
      vulnerabilities |->
        [k \in 1..Len(real) |->
           [id |-> real[k].id, type |-> real[k].type, severity |-> real[k].severity,
            file |-> file, line |-> real[k].line,
            suggestedFix |-> real[k].suggestedFix, status |-> "open"]],
      summary |-> SummaryOf(real)]

\* the summary of the Scan record the handler creates
UploadStoredSummary(scanResult) == SummaryOf(scanResult)

\* the handler, from the read of the uploaded file to the response
PostScanFile(scanId, upload, sendsLanguage) ==
  /\ CanSubmit
  /\ scanId \notin DOMAIN scans
  /\ req' = upload
  /\ IF FileIsEmpty(upload.code)
     THEN \* throw new Error('File is empty')
          /\ resp' = [status |-> 400, route |-> "scan/file",
                      message |-> "Failed to read file: File is empty"]
          /\ UNCHANGED <<scans, vulns>>
     ELSE LET language == UploadLanguage(upload.name, sendsLanguage)
              scanResult == ScanCode(upload.code, language)
              saved == SaveUploadFindings(vulns, scanResult, 1, scanId, upload.name)
          IN /\ scans' = [s \in DOMAIN scans \cup {scanId} |->
                            IF s = scanId
                            THEN [status |-> "completed", progress |-> 100,
                                  summary |-> UploadStoredSummary(scanResult),
                                  kind |-> "file"]
                            ELSE scans[s]]
             /\ vulns' = saved.db
             /\ resp' = IF saved.thrown
                        THEN [status |-> 500, route |-> "scan/file",
                              message |-> "Server error during file scan"]
                        ELSE UploadResult(scanId, scanResult, upload.name)
  /\ UNCHANGED <<repo, sim, lang, eng, client, auth>>

\* GET /api/scan/repository/:scanId/results: the handler only reads, so its
\* response is a function of the database
GetScanResults(scanId) ==
  LET found == FindVulnerabilities(vulns, scanId)
  IN [status |-> 200, route |-> "results", scanId |-> scanId,
      scanStatus |-> scans[scanId].status,
      vulnerabilities |->
        [k \in 1..Len(found) |->
           [id |-> found[k].vulnerabilityId, type |-> found[k].type,
            severity |-> found[k].severity, file |-> found[k].file,
            line |-> found[k].line,
            suggestedFix |-> found[k].suggestedFix,
            status |-> found[k].status]],
      summary |-> scans[scanId].summary]

----------------------------------------------------------------------------
\* The dashboards: GET /api/dashboard of server.js and getUserDashboardData
\* of repoScanner.js.  Both only read, so their lists are functions of the
\* database.

\* the first n elements: slice(0, n) / limit(n)
Take(seq, n) == SubSeq(seq, 1, IF Len(seq) < n THEN Len(seq) ELSE n)

\* const severityOrder = { 'critical': 0, 'high': 1, 'medium': 2, 'low': 3 }
SeverityOrder ==
  [sev \in Severities |->
     CASE sev = "critical" -> 0 [] sev = "high" -> 1 [] sev = "medium" -> 2 [] sev = "low" -> 3]

\* vulnerabilities.sort((a, b) => severityOrder[a.severity] - severityOrder[b.severity]):
\* ascending in severityOrder, equal keys in their earlier order
SortBySeverityOrder(vs) ==
  LET at(n) == SelectSeq(vs, LAMBDA v : SeverityOrder[v.severity] = n)
  IN at(0) \o at(1) \o at(2) \o at(3)

\* the place of a severity when the severity strings are put in descending
\* order of their characters: 'medium' > 'low' > 'high' > 'critical'
DescendingStringOrder ==
  [sev \in Severities |->
     CASE sev = "medium" -> 0 [] sev = "low" -> 1 [] sev = "high" -> 2 [] sev = "critical" -> 3]

\* .sort({ severity: -1 }): descending in the severity string, equal keys
\* in insertion order
SortBySeverityDescending(vs) ==
  LET at(n) == SelectSeq(vs, LAMBDA v : DescendingStringOrder[v.severity] = n)
  IN at(0) \o at(1) \o at(2) \o at(3)

\* the entry of a topVulnerabilities list
TopEntry(v) == [id |-> v.vulnerabilityId, type |-> v.type, severity |-> v.severity]

\* GET /api/dashboard: topVulnerabilities
DashboardTopVulnerabilities ==
  LET top == Take(SortBySeverityOrder(vulns), 5)
  IN [k \in 1..Len(top) |-> TopEntry(top[k])]

\* getUserDashboardData: topVulnerabilities, the open records of severity
\* critical or high
UserDashboardTopVulnerabilities ==
  LET found == SelectSeq(vulns, LAMBDA v :
                 v.status = "open" /\ v.severity \in {"critical", "high"})
      top == Take(SortBySeverityDescending(found), 3)
  IN [k \in 1..Len(top) |-> TopEntry(top[k])]

----------------------------------------------------------------------------
\* repoScanner.js: initiateRepositoryScan, updateScanProgress, finalizeScan

\* Math.floor(Math.random() * 15) + 5
Increments == 5..19

\* the increments drawn in Spec, where the scans of all kinds meet: the
\* largest one.  SpecSim draws every increment.
LargestIncrement == {i \in Increments : \A j \in Increments : j <= i}

\* parseInt(scanId.substring(0, 8), 16) % 1000
RandomSeed(scanId) == (scanId.hi * 65536 + scanId.lo) % 1000

\* (randomSeed % 20) + 1
VulnerabilityCount(scanId) == (RandomSeed(scanId) % 20) + 1

SeverityOptions == <<"low", "medium", "high", "critical">>

TypeOptions ==
  <<"SQL Injection", "Cross-site Scripting (XSS)", "Hardcoded Secret",
    "Insecure Cookie", "Path Traversal", "Outdated Dependency",
    "Unsafe Deserialization", "Command Injection",
    "Insecure Direct Object Reference", "Sensitive Data Exposure">>

\* `vuln-${scanId.substring(0, 4)}-${i}`
GeneratedId(scanId, i) == <<"vuln", scanId.hi, i>>

\* variant of GeneratedVulnerability: every document is created 'open'
GeneratedVulnerabilityOpen(scanId, i) ==
  [vulnerabilityId |-> GeneratedId(scanId, i),
   scanId |-> scanId,
   type |-> TypeOptions[((RandomSeed(scanId) + i) % Len(TypeOptions)) + 1],
   severity |-> SeverityOptions[((RandomSeed(scanId) + i) % 4) + 1],
   file |-> <<"src", i % 5>>,
   line |-> ((RandomSeed(scanId) + i * 11) % 200) + 1,
   suggestedFix |-> Undefined,
   status |-> "open"]

\* the i-th document finalizeScan generates (i counts from 0)
GeneratedVulnerability(scanId, i) ==
  [vulnerabilityId |-> GeneratedId(scanId, i),
   scanId |-> scanId,
   type |-> TypeOptions[((RandomSeed(scanId) + i) % Len(TypeOptions)) + 1],
   severity |-> SeverityOptions[((RandomSeed(scanId) + i) % 4) + 1],
   file |-> <<"src", i % 5>>,
   line |-> ((RandomSeed(scanId) + i * 11) % 200) + 1,
   suggestedFix |-> Undefined,
   status |-> IF i % 5 = 0 THEN "fixed" ELSE "open"]

\* initiateRepositoryScan: the Scan record is created without a summary and
\* updateScanProgress is scheduled with setTimeout
InitiateRepositoryScan(scanId) ==
  /\ CanSubmit
  /\ scanId \notin DOMAIN scans
  /\ scans' = [s \in DOMAIN scans \cup {scanId} |->
                 IF s = scanId
                 THEN [status |-> "initiated", progress |-> 0,
                       summary |-> UndefinedSummary, kind |-> "simulated"]
                 ELSE scans[s]]
  /\ sim' = [s \in DOMAIN sim \cup {scanId} |->
               IF s = scanId
               THEN [pc |-> "timeout", progress |-> 0, ticks |-> 0, i |-> 0, writes |-> <<>>]
               ELSE sim[s]]
  /\ UNCHANGED <<vulns, repo, req, resp, lang, eng, client, auth>>

\* the timeout fires: updateScanProgress starts the interval timer
UpdateScanProgress(scanId) ==
  /\ sim[scanId].pc = "timeout"
  /\ sim' = [sim EXCEPT ![scanId].pc = "interval"]
  /\ UNCHANGED <<scans, vulns, repo, req, resp, lang, eng, client, auth>>

\* variant of IntervalTick: progress is not capped at 100
IntervalTickUncapped(scanId, increment) ==
  /\ sim[scanId].pc = "interval"
  /\ Len(sim[scanId].writes) < MaxWrites
  /\ LET progress == sim[scanId].progress + increment
     IN IF progress >= 100
        THEN sim' = [sim EXCEPT ![scanId].progress = progress, ![scanId].ticks = @ + 1,
                                ![scanId].pc = "finalize"]
        ELSE sim' = [sim EXCEPT
               ![scanId].progress = progress,
               ![scanId].ticks = @ + 1,
               ![scanId].writes = Append(@, [status |-> "processing", progress |-> progress])]
  /\ UNCHANGED <<scans, vulns, repo, req, resp, lang, eng, client, auth>>

\* the interval callback up to its first await: below 100 the write of
\* (processing, progress) is issued; at 100 the timer is cleared and
\* finalizeScan is entered.  ticks counts the callbacks of the timer.
IntervalTick(scanId, increment) ==
  /\ sim[scanId].pc = "interval"
  /\ Len(sim[scanId].writes) < MaxWrites
  /\ LET progress == sim[scanId].progress + increment
     IN IF progress >= 100
        THEN sim' = [sim EXCEPT ![scanId].progress = 100, ![scanId].ticks = @ + 1,
                                ![scanId].pc = "finalize"]
        ELSE sim' = [sim EXCEPT
               ![scanId].progress = progress,
               ![scanId].ticks = @ + 1,
               ![scanId].writes = Append(@, [status |-> "processing", progress |-> progress])]
  /\ UNCHANGED <<scans, vulns, repo, req, resp, lang, eng, client, auth>>

\* a progress write of an earlier callback reaches the database
ProgressWriteLands(scanId) ==
  /\ sim[scanId].writes # <<>>
  /\ scans' = UpdateScan(scans, scanId, Head(sim[scanId].writes))
  /\ sim' = [sim EXCEPT ![scanId].writes = Tail(@)]
  /\ UNCHANGED <<vulns, repo, req, resp, lang, eng, client, auth>>

\* finalizeScan: Scan.findOne, then the first iteration of the loop is due
FinalizeFind(scanId) ==
  /\ sim[scanId].pc = "finalize"
  /\ sim' = [sim EXCEPT ![scanId].pc = "generate", ![scanId].i = 0]
  /\ UNCHANGED <<scans, vulns, repo, req, resp, lang, eng, client, auth>>

\* finalizeScan: one iteration of the loop that generates and saves; a
\* rejected save throws into the catch
FinalizeSave(scanId) ==
  /\ sim[scanId].pc = "generate"
  /\ LET i == sim[scanId].i
         doc == GeneratedVulnerability(scanId, i)
     IN IF IsDuplicate(vulns, doc)
        THEN /\ sim' = [sim EXCEPT ![scanId].pc = "catch"]
             /\ UNCHANGED vulns
        ELSE /\ vulns' = SaveVulnerability(vulns, doc)
             /\ sim' = [sim EXCEPT
                   ![scanId].i = i + 1,
                   ![scanId].pc = IF i + 1 = VulnerabilityCount(scanId)
                                  THEN "summary" ELSE "generate"]
  /\ UNCHANGED <<scans, repo, req, resp, lang, eng, client, auth>>

\* finalizeScan: the summary is computed from the stored documents and
\* written with status: 'completed', progress: 100
FinalizeComplete(scanId) ==
  /\ sim[scanId].pc = "summary"
  /\ scans' = UpdateScan(scans, scanId,
                 [status |-> "completed", progress |-> 100,
                  summary |-> SummaryOf(FindVulnerabilities(vulns, scanId))])
  /\ sim' = [sim EXCEPT ![scanId].pc = "lastwrite"]
  /\ UNCHANGED <<vulns, repo, req, resp, lang, eng, client, auth>>

\* finalizeScan: the catch writes status: 'failed'
FinalizeCatch(scanId) ==
  /\ sim[scanId].pc = "catch"
  /\ scans' = UpdateScan(scans, scanId, [status |-> "failed"])
  /\ sim' = [sim EXCEPT ![scanId].pc = "lastwrite"]
  /\ UNCHANGED <<vulns, repo, req, resp, lang, eng, client, auth>>

\* the interval callback after finalizeScan has returned: the write of
\* (progress < 100 ? 'processing' : 'completed', progress)
IntervalLastWrite(scanId) ==
  /\ sim[scanId].pc = "lastwrite"
  /\ scans' = UpdateScan(scans, scanId,
                 [status |-> IF sim[scanId].progress < 100 THEN "processing" ELSE "completed",
                  progress |-> sim[scanId].progress])
  /\ sim' = [sim EXCEPT ![scanId].pc = "done"]
  /\ UNCHANGED <<vulns, repo, req, resp, lang, eng, client, auth>>

----------------------------------------------------------------------------
\* geminiAI.js: the updater that writes before it finalizes.  A job of this
\* updater is [pc, progress, callbacks, runs]: the timer, the closure
\* variable progress, the writes the callbacks await, and the invocations
\* of finalizeScan

\* the callbacks of one timer that await their write at the same time
MaxCallbacks == 2

\* parseInt(scanId.slice(0, 8), 16)
VariantSeed(scanId) == scanId.hi * 65536 + scanId.lo

\* (seed % 20) + 1
VariantCount(scanId) == (VariantSeed(scanId) % 20) + 1

VariantTypes ==
  <<"SQL Injection", "Cross-site Scripting (XSS)", "Hardcoded Secret",
    "Insecure Cookie", "Path Traversal", "Outdated Dependency",
    "Command Injection", "Unsafe Deserialization",
    "Insecure Direct Object Reference", "Sensitive Data Exposure">>

\* the i-th document the finalizeScan of geminiAI.js generates
VariantVulnerability(scanId, i) ==
  [vulnerabilityId |-> GeneratedId(scanId, i),
   scanId |-> scanId,
   type |-> VariantTypes[((VariantSeed(scanId) + i) % Len(VariantTypes)) + 1],
   severity |-> SeverityOptions[((VariantSeed(scanId) + i) % 4) + 1],
   file |-> <<"src", i % 5>>,
   line |-> ((VariantSeed(scanId) + i * 11) % 200) + 1,
   suggestedFix |-> Undefined,
   status |-> IF i % 5 = 0 THEN "fixed" ELSE "open"]

\* the job initiateRepositoryScan leaves behind: the record is stored and
\* updateScanProgress is scheduled with setTimeout
VariantJob == [pc |-> "timeout", progress |-> 0, callbacks |-> <<>>, runs |-> <<>>]

\* sequence s without its k-th element
RemoveAt(s, k) == [j \in 1..(Len(s) - 1) |-> IF j < k THEN s[j] ELSE s[j + 1]]

\* the timeout fires: updateScanProgress starts the interval timer
VariantUpdateScanProgress(scanId) ==
  /\ sim[scanId].pc = "timeout"
  /\ sim' = [sim EXCEPT ![scanId].pc = "interval"]
  /\ UNCHANGED <<scans, vulns, repo, req, resp, lang, eng, client, auth>>

\* the interval callback up to its await: progress is raised and capped, and
\* the write of (status, progress) is issued
VariantIntervalTick(scanId, increment) ==
  /\ sim[scanId].pc = "interval"
  /\ Len(sim[scanId].callbacks) < MaxCallbacks
  /\ LET progress == IF sim[scanId].progress + increment < 100
                     THEN sim[scanId].progress + increment ELSE 100
         status == IF progress < 100 THEN "processing" ELSE "completed"
     IN sim' = [sim EXCEPT
          ![scanId].progress = progress,
          ![scanId].callbacks = Append(@, [status |-> status, progress |-> progress])]
  /\ UNCHANGED <<scans, vulns, repo, req, resp, lang, eng, client, auth>>

\* the awaited write of the k-th waiting callback completes and the callback
\* goes on: it reads progress again and, at 100, clears the timer and calls
\* finalizeScan
VariantWriteLands(scanId, k) ==
  /\ k \in 1..Len(sim[scanId].callbacks)
  /\ scans' = UpdateScan(scans, scanId,
                 [status |-> sim[scanId].callbacks[k].status,
                  progress |-> sim[scanId].callbacks[k].progress])
  /\ IF sim[scanId].progress = 100
     THEN sim' = [sim EXCEPT
            ![scanId].callbacks = RemoveAt(@, k),
            ![scanId].pc = "cleared",
            ![scanId].runs = Append(@, [pc |-> "find", i |-> 0])]
     ELSE sim' = [sim EXCEPT ![scanId].callbacks = RemoveAt(@, k)]
  /\ UNCHANGED <<vulns, repo, req, resp, lang, eng, client, auth>>

\* finalizeScan, k-th invocation: Scan.findOne finds the record
VariantFinalizeFind(scanId, k) ==
  /\ k \in 1..Len(sim[scanId].runs)
  /\ sim[scanId].runs[k].pc = "find"
  /\ sim' = [sim EXCEPT ![scanId].runs[k].pc = "generate"]
  /\ UNCHANGED <<scans, vulns, repo, req, resp, lang, eng, client, auth>>

\* finalizeScan, k-th invocation: one iteration of the loop; a rejected
\* save throws into the catch
VariantFinalizeSave(scanId, k) ==
  /\ k \in 1..Len(sim[scanId].runs)
  /\ sim[scanId].runs[k].pc = "generate"
  /\ LET i == sim[scanId].runs[k].i
         doc == VariantVulnerability(scanId, i)
     IN IF IsDuplicate(vulns, doc)
        THEN /\ sim' = [sim EXCEPT ![scanId].runs[k].pc = "catch"]
             /\ UNCHANGED vulns
        ELSE /\ vulns' = SaveVulnerability(vulns, doc)
             /\ sim' = [sim EXCEPT
                   ![scanId].runs[k].i = i + 1,
                   ![scanId].runs[k].pc = IF i + 1 = VariantCount(scanId)
                                          THEN "summary" ELSE "generate"]
  /\ UNCHANGED <<scans, repo, req, resp, lang, eng, client, auth>>

\* finalizeScan, k-th invocation: the summary of the stored documents is
\* written with status: 'completed', progress: 100
VariantFinalizeComplete(scanId, k) ==
  /\ k \in 1..Len(sim[scanId].runs)
  /\ sim[scanId].runs[k].pc = "summary"
  /\ scans' = UpdateScan(scans, scanId,
                 [status |-> "completed", progress |-> 100,
                  summary |-> SummaryOf(FindVulnerabilities(vulns, scanId))])
  /\ sim' = [sim EXCEPT ![scanId].runs[k].pc = "fixes"]
  /\ UNCHANGED <<vulns, repo, req, resp, lang, eng, client, auth>>

\* fetchFixSuggestions: every document of the scan without a suggestedFix
\* gets one; a generator that throws is caught and leaves the documents alone
FetchFixSuggestions(scanId, k, generated) ==
  /\ k \in 1..Len(sim[scanId].runs)
  /\ sim[scanId].runs[k].pc = "fixes"
  /\ vulns' = [j \in 1..Len(vulns) |->
                 IF generated /\ vulns[j].scanId = scanId /\ vulns[j].suggestedFix = Undefined
                 THEN [vulns[j] EXCEPT !.suggestedFix = ResolveFix(vulns[j].type)]
                 ELSE vulns[j]]
  /\ sim' = [sim EXCEPT ![scanId].runs[k].pc = "returned"]
  /\ UNCHANGED <<scans, repo, req, resp, lang, eng, client, auth>>

\* finalizeScan, k-th invocation: the catch writes status: 'failed'
VariantFinalizeCatch(scanId, k) ==
  /\ k \in 1..Len(sim[scanId].runs)
  /\ sim[scanId].runs[k].pc = "catch"
  /\ scans' = UpdateScan(scans, scanId, [status |-> "failed"])
  /\ sim' = [sim EXCEPT ![scanId].runs[k].pc = "returned"]
  /\ UNCHANGED <<vulns, repo, req, resp, lang, eng, client, auth>>

----------------------------------------------------------------------------
\* The callers' mapping on its own, over every file name

MapOnServer(name) ==
  /\ lang' = [caller |-> "scanRepository", name |-> name, language |-> ServerLanguage(name)]
  /\ UNCHANGED <<scans, vulns, repo, sim, req, resp, eng, client, auth>>

MapOnClient(name, sendsLanguage) ==
  /\ lang' = [caller |-> IF sendsLanguage THEN "uploadAndScanFile" ELSE "scan/file",
              name |-> name, language |-> UploadLanguage(name, sendsLanguage)]
  /\ UNCHANGED <<scans, vulns, repo, sim, req, resp, eng, client, auth>>

----------------------------------------------------------------------------
\* The scan engine on its own, over every text and language of the bounds

\* longest text, in lines, and longest line, in tokens
MaxLines == 2
MaxLineTokens == 2

EngineTokens == {"sqli", "cookie", "pickle"}
EngineLines == UNION { [1..n -> EngineTokens] : n \in 0..MaxLineTokens }
EngineTexts == UNION { [1..n -> EngineLines] : n \in 0..MaxLines }

\* the Language enumeration (the values the rules and the callers name)
Languages == {"javascript", "typescript", "python", "java", "unknown"}

\* the types resolveFix is asked about: the rules' types, the types
\* finalizeScan generates, the sentinel and the empty type
FindingTypes ==
  {Rules[k].vulnerabilityType : k \in 1..Len(Rules)}
    \cup {TypeOptions[k] : k \in 1..Len(TypeOptions)} \cup {Sentinel, ""}

\* the calls of the engine: scanCode(code, language) and resolveFix(type)
EngineCalls ==
  [op : {"scanCode"}, returned : {FALSE}, code : EngineTexts, language : Languages]
    \cup [op : {"resolveFix"}, returned : {FALSE}, type : FindingTypes]

\* the call of scanCode returns; the raw matches of the matcher are kept
\* beside the returned entries
ScanText ==
  /\ eng.op = "scanCode" /\ ~eng.returned
  /\ eng' = [op |-> "scanCode", returned |-> TRUE,
             code |-> eng.code, language |-> eng.language,
             raw |-> Match(eng.code, eng.language),
             vulnerabilities |-> ScanCode(eng.code, eng.language)]
  /\ UNCHANGED <<scans, vulns, repo, sim, req, resp, lang, client, auth>>

\* resolveFix is called twice for the finding type
ResolveFixTwice ==
  /\ eng.op = "resolveFix" /\ ~eng.returned
  /\ eng' = [op |-> "resolveFix", returned |-> TRUE, type |-> eng.type,
             first |-> ResolveFix(eng.type), second |-> ResolveFix(eng.type)]
  /\ UNCHANGED <<scans, vulns, repo, sim, req, resp, lang, client, auth>>

----------------------------------------------------------------------------
\* The browser: ScanForm.handleRepoScan, ScanResults and
\* scannerService.pollScanStatus, for the one scan the form starts

\* the status requests of one poller that await their response at once
MaxRequests == 2

\* the files selected in the form
SelectedFiles == {filePaths \in FilePathArrays : Len(filePaths) <= 1}

\* a poller: its interval timer, the getScanStatus calls it awaits, how
\* often its callback got a terminal status, and what it did last
NoPoller == [timer |-> "none", pending |-> 0, terminal |-> 0, event |-> "none"]

Pollers == {"form", "results"}

\* the form is rendered and nothing has been started
FormRendered ==
  [page |-> "ScanForm", isScanning |-> FALSE, scanProgress |-> 0, toast |-> "none",
   mounted |-> FALSE, init |-> "none", scanning |-> FALSE, progress |-> 0,
   loaded |-> FALSE, cache |-> "none", form |-> NoPoller, results |-> NoPoller]

\* ScanResults is mounted and its effect calls initResults, which awaits
\* getScanStatus
MountResults(c) ==
  IF c.mounted THEN c
  ELSE [c EXCEPT !.page = "ScanResults", !.mounted = TRUE, !.init = "pending"]

\* handleRepoScan: no file selected -> toast; otherwise isScanning is set,
\* the scan is started and pollScanStatus is called; a start that throws
\* resets isScanning
HandleRepoScan(filePaths, started) ==
  /\ client.page = "ScanForm"
  /\ ~client.isScanning
  /\ FirstScanId \notin DOMAIN scans
  /\ IF Len(filePaths) = 0
     THEN /\ client' = [client EXCEPT !.toast = "No files selected"]
          /\ UNCHANGED <<scans, repo, resp>>
     ELSE IF started
     THEN /\ CreateRepositoryScan(FirstScanId, filePaths)
          /\ client' = [client EXCEPT
                !.isScanning = TRUE, !.scanProgress = 0, !.toast = "Scan initiated",
                !.cache = "initiated", !.form.timer = "running"]
     ELSE /\ client' = [client EXCEPT !.isScanning = FALSE, !.toast = "Scan failed"]
          /\ UNCHANGED <<scans, repo, resp>>
  /\ UNCHANGED <<vulns, sim, req, lang, eng, auth>>

\* the interval fires: the callback of setInterval calls getScanStatus and
\* awaits it.  The entry of activeScans is older than 2000 ms at every tick
\* of a 3000 ms timer, so the status is fetched.
PollTick(p) ==
  /\ client.page # "none"
  /\ client[p].timer = "running"
  /\ client[p].pending < MaxRequests
  /\ client' = [client EXCEPT ![p].pending = @ + 1, ![p].event = "tick"]
  /\ UNCHANGED <<scans, vulns, repo, sim, req, resp, lang, eng, auth>>

\* the callback handleRepoScan passes to pollScanStatus
FormCallback(c, statusInfo) ==
  LET shown == [c EXCEPT !.scanProgress = statusInfo.progress]
  IN CASE statusInfo.status = "completed" ->
            MountResults([shown EXCEPT !.toast = "Scan completed", !.isScanning = FALSE])
       [] statusInfo.status = "failed" ->
            [shown EXCEPT !.toast = "Scan failed", !.isScanning = FALSE]
       [] OTHER -> shown

\* the callback ScanResults passes to pollScanStatus
ResultsCallback(c, statusInfo) ==
  LET shown == [c EXCEPT !.progress = statusInfo.progress]
  IN CASE statusInfo.status = "completed" ->
            [shown EXCEPT !.scanning = FALSE, !.loaded = TRUE]
       [] statusInfo.status = "failed" ->
            [shown EXCEPT !.scanning = FALSE, !.toast = "Scan failed"]
       [] OTHER -> shown

\* an awaited getScanStatus of poller p returns: with the stored status,
\* which goes to the callback and, when terminal, clears the timer; or by
\* throwing, which clears the timer without a call of the callback
StatusResponse(p, ok) ==
  /\ client.page # "none"
  /\ client[p].pending > 0
  /\ IF ok
     THEN LET statusInfo == [status |-> scans[FirstScanId].status,
                             progress |-> scans[FirstScanId].progress]
              called == IF p = "form" THEN FormCallback(client, statusInfo)
                        ELSE ResultsCallback(client, statusInfo)
              isTerminal == statusInfo.status \in {"completed", "failed"}
          IN client' = [called EXCEPT
               !.cache = statusInfo.status,
               ![p].pending = @ - 1,
               ![p].event = "callback",
               ![p].terminal = IF isTerminal THEN @ + 1 ELSE @,
               ![p].timer = IF isTerminal THEN "cleared" ELSE @]
     ELSE client' = [client EXCEPT
               ![p].pending = @ - 1, ![p].event = "error", ![p].timer = "cleared"]
  /\ UNCHANGED <<scans, vulns, repo, sim, req, resp, lang, eng, auth>>

\* the user opens /results?scanId=... while the form is shown
OpenResults ==
  /\ client.page = "ScanForm"
  /\ FirstScanId \in DOMAIN scans
  /\ client' = MountResults(client)
  /\ UNCHANGED <<scans, vulns, repo, sim, req, resp, lang, eng, auth>>

\* initResults after its awaited getScanStatus: results are loaded for a
\* completed scan, a toast is shown for a failed one, and otherwise
\* pollScanStatus is called; the function it returns is the return value of
\* initResults, which the effect drops
InitResults(ok) ==
  /\ client.page # "none"
  /\ client.init = "pending"
  /\ IF ~ok
     THEN client' = [client EXCEPT !.init = "done", !.toast = "Error loading results"]
     ELSE LET status == scans[FirstScanId].status
          IN client' =
               CASE status = "completed" ->
                      [client EXCEPT !.init = "done", !.cache = status, !.loaded = TRUE]
                 [] status = "failed" ->
                      [client EXCEPT !.init = "done", !.cache = status, !.toast = "Scan failed"]
                 [] OTHER ->
                      [client EXCEPT !.init = "done", !.cache = status, !.scanning = TRUE,
                                     !.progress = scans[FirstScanId].progress,
                                     !.results.timer = "running"]
  /\ UNCHANGED <<scans, vulns, repo, sim, req, resp, lang, eng, auth>>

\* ScanResults unmounts: the effect returned no cleanup function
UnmountResults ==
  /\ client.page = "ScanResults"
  /\ client.mounted
  /\ client' = [client EXCEPT !.page = "left", !.mounted = FALSE]
  /\ UNCHANGED <<scans, vulns, repo, sim, req, resp, lang, eng, auth>>

----------------------------------------------------------------------------
\* server.js: POST /api/scan/:scanId/apply-fixes.  A text is the sequence of
\* its characters; LF is the line feed

\* the lines of the file in the repository
MaxFileLines == 3

\* the entries of the vulnerabilities array of a request
MaxFixes == 2

LF == "LF"

\* text.split('\n')
RECURSIVE SplitLines(_)
SplitLines(text) ==
  IF \A k \in 1..Len(text) : text[k] # LF
  THEN <<text>>
  ELSE LET first == CHOOSE k \in 1..Len(text) :
                      text[k] = LF /\ \A j \in 1..(k - 1) : text[j] # LF
       IN <<SubSeq(text, 1, first - 1)>> \o SplitLines(SubSeq(text, first + 1, Len(text)))

\* lines.join('\n')
RECURSIVE JoinLines(_)
JoinLines(lines) ==
  IF Len(lines) = 0 THEN <<>>
  ELSE IF Len(lines) = 1 THEN lines[1]
  ELSE lines[1] \o <<LF>> \o JoinLines(Tail(lines))

\* the character that marks the k-th line of a file
LineChar(k) == <<"a", "b", "c", "d", "e", "f">>[k]

\* the files of the repository: up to MaxFileLines lines, the k-th either
\* empty or holding its character
FileTexts ==
  { JoinLines([k \in 1..n |-> IF k \in filled THEN <<LineChar(k)>> ELSE <<>>]) :
      n \in 1..MaxFileLines, filled \in SUBSET (1..MaxFileLines) }

\* the fixes: one line, or two lines
FixTexts == { <<"x">>, <<"y", LF, "z">> }

\* vulnerabilities: entries { lineNumber, fix }, the line numbers from 0 to
\* one past the longest file
FixEntries == [lineNumber : 0..(MaxFileLines + 1), fix : FixTexts]

FixArrays == UNION { [1..n -> FixEntries] : n \in 0..MaxFixes }

\* sorted array with entry e put before the first entry of a lower line
\* number
RECURSIVE InsertDescending(_, _)
InsertDescending(sorted, e) ==
  IF sorted = <<>> THEN <<e>>
  ELSE IF e.lineNumber > Head(sorted).lineNumber THEN <<e>> \o sorted
  ELSE <<Head(sorted)>> \o InsertDescending(Tail(sorted), e)

\* sorted array with entry e put before the first entry of a higher line
\* number
RECURSIVE InsertAscending(_, _)
InsertAscending(sorted, e) ==
  IF sorted = <<>> THEN <<e>>
  ELSE IF e.lineNumber < Head(sorted).lineNumber THEN <<e>> \o sorted
  ELSE <<Head(sorted)>> \o InsertAscending(Tail(sorted), e)

\* variant of SortByLineNumberDescending: ascending line numbers
RECURSIVE SortByLineNumberAscending(_)
SortByLineNumberAscending(vulnerabilities) ==
  IF vulnerabilities = <<>> THEN <<>>
  ELSE InsertAscending(
         SortByLineNumberAscending(SubSeq(vulnerabilities, 1, Len(vulnerabilities) - 1)),
         vulnerabilities[Len(vulnerabilities)])

\* [...vulnerabilities].sort((a, b) => b.lineNumber - a.lineNumber): a
\* stable sort, entries of equal line number keep their order
RECURSIVE SortByLineNumberDescending(_)
SortByLineNumberDescending(vulnerabilities) ==
  IF vulnerabilities = <<>> THEN <<>>
  ELSE InsertDescending(
         SortByLineNumberDescending(SubSeq(vulnerabilities, 1, Len(vulnerabilities) - 1)),
         vulnerabilities[Len(vulnerabilities)])

\* one iteration of the loop: split, replace lines[lineNumber - 1] if that
\* index is in range, join
ApplyOneFix(fixedCode, vuln) ==
  LET lines == SplitLines(fixedCode)
      lineIndex == vuln.lineNumber - 1
  IN IF lineIndex >= 0 /\ lineIndex < Len(lines)
     THEN JoinLines([lines EXCEPT ![lineIndex + 1] = vuln.fix])
     ELSE fixedCode

\* the loop over the sorted vulnerabilities
RECURSIVE ApplySortedFixes(_, _)
ApplySortedFixes(fixedCode, sortedVulnerabilities) ==
  IF sortedVulnerabilities = <<>> THEN fixedCode
  ELSE ApplySortedFixes(ApplyOneFix(fixedCode, Head(sortedVulnerabilities)),
                        Tail(sortedVulnerabilities))

\* the requests: the scan of the route exists or not, the file is in the
\* repository or not
NoFile == <<"ENOENT">>

ApplyFixesRequests ==
  [route : {"apply-fixes"}, scanFound : BOOLEAN, file : FileTexts \cup {NoFile},
   vulnerabilities : FixArrays]

\* the handler: 404 without the scan, 500 when the clone fails, 404 when
\* the file cannot be read, else 200 with originalCode and fixedCode
PostApplyFixes(cloned) ==
  /\ req.route = "apply-fixes"
  /\ resp = NoResponse
  /\ resp' =
       IF ~req.scanFound THEN [status |-> 404, route |-> "apply-fixes", message |-> "Scan not found"]
       ELSE IF ~cloned THEN [status |-> 500, route |-> "apply-fixes", message |-> "Failed to apply fixes"]
       ELSE IF req.file = NoFile
       THEN [status |-> 404, route |-> "apply-fixes", message |-> "File not found in repository"]
       ELSE [status |-> 200, route |-> "apply-fixes",
             originalCode |-> req.file,
             fixedCode |-> ApplySortedFixes(req.file,
                              SortByLineNumberDescending(req.vulnerabilities))]
  /\ UNCHANGED <<scans, vulns, repo, sim, req, lang, eng, client, auth>>

----------------------------------------------------------------------------
\* server.js: POST /api/auth/register, /api/auth/verify-otp, /api/auth/login.
\* auth is [users, otps, now, answer]: the User collection by email, the OTP
\* collection in insertion order, the clock, and the last answer

\* the clock runs from 0 to MaxTime
MaxTime == 3

\* expiresAt: Date.now() + 10 * 60 * 1000, in steps of the clock
OtpLifetime == 2

\* the emails of the requests, in lower case and trimmed
Emails == {"ann@example.com", "bob@example.com"}

Passwords == {"secret", "guess"}

\* generateOTP(): six digits
OtpCodes == {"111111", "222222"}

\* the values of the field otp that express.json() hands to the handler: a
\* string, or an object, which the filter of OTP.findOne takes as a query
\* operator ({ "$ne": "" } matches every stored otp other than "")
OtpValues ==
  [op : {"eq"}, value : OtpCodes] \cup { [op |-> "ne", value |-> ""] }

\* does a stored otp satisfy the condition the filter puts on the field?
MatchesCondition(stored, condition) ==
  IF condition.op = "eq" THEN stored = condition.value ELSE stored # condition.value

\* bcrypt.hash(password, 10) and bcrypt.compare(password, hash)
Hash(password) == <<"bcrypt", password>>
Compare(password, hash) == hash = Hash(password)

\* the positions of the OTP records that match { email, otp, expiresAt: { $gt: now } }
ValidOtps(email, otp) ==
  {k \in 1..Len(auth.otps) :
     /\ auth.otps[k].email = email
     /\ MatchesCondition(auth.otps[k].otp, otp)
     /\ auth.otps[k].expiresAt > auth.now}

\* register: 400 for a registered email; otherwise the user is stored
\* unverified, an OTP is stored for the email and mailed; a mail that
\* cannot be sent answers 500 and leaves both records
PostRegister(email, password, code, mailed) ==
  /\ IF email \in DOMAIN auth.users
     THEN auth' = [auth EXCEPT !.answer = [route |-> "register", status |-> 400]]
     ELSE auth' = [auth EXCEPT
            !.users = [e \in DOMAIN auth.users \cup {email} |->
                         IF e = email
                         THEN [password |-> Hash(password), isVerified |-> FALSE]
                         ELSE auth.users[e]],
            !.otps = Append(@, [email |-> email, otp |-> code,
                                expiresAt |-> auth.now + OtpLifetime]),
            !.answer = [route |-> "register", status |-> IF mailed THEN 201 ELSE 500]]
  /\ UNCHANGED <<scans, vulns, repo, sim, req, resp, lang, eng, client>>

\* verify-otp: the most recent record that matches the filter; without one
\* 400; with one the user of the email is marked verified and the record
\* is deleted
PostVerifyOtp(email, otp) ==
  /\ IF ValidOtps(email, otp) = {}
     THEN auth' = [auth EXCEPT !.answer =
                     [route |-> "verify-otp", status |-> 400, email |-> email, otp |-> otp]]
     ELSE LET found == CHOOSE k \in ValidOtps(email, otp) :
                         \A j \in ValidOtps(email, otp) : j <= k
          IN auth' = [auth EXCEPT
               !.users = [e \in DOMAIN auth.users |->
                            IF e = email THEN [auth.users[e] EXCEPT !.isVerified = TRUE]
                            ELSE auth.users[e]],
               !.otps = RemoveAt(@, found),
               !.answer = [route |-> "verify-otp", status |-> 200, email |-> email, otp |-> otp]]
  /\ UNCHANGED <<scans, vulns, repo, sim, req, resp, lang, eng, client>>

\* login: 401 for an unknown email, an unverified user or a wrong
\* password; otherwise a token for the user
PostLogin(email, password) ==
  /\ auth' = [auth EXCEPT !.answer =
       IF email \notin DOMAIN auth.users
       THEN [route |-> "login", status |-> 401, email |-> email, password |-> password]
       ELSE IF ~auth.users[email].isVerified
       THEN [route |-> "login", status |-> 401, email |-> email, password |-> password]
       ELSE IF ~Compare(password, auth.users[email].password)
       THEN [route |-> "login", status |-> 401, email |-> email, password |-> password]
       ELSE [route |-> "login", status |-> 200, email |-> email, password |-> password,
             token |-> <<"jwt", email>>]]
  /\ UNCHANGED <<scans, vulns, repo, sim, req, resp, lang, eng, client>>

\* time passes
ClockTick ==
  /\ auth.now < MaxTime
  /\ auth' = [auth EXCEPT !.now = @ + 1]
  /\ UNCHANGED <<scans, vulns, repo, sim, req, resp, lang, eng, client>>

----------------------------------------------------------------------------
\* Specifications

Init ==
  /\ scans = <<>>
  /\ vulns = <<>>
  /\ repo = <<>>
  /\ sim = <<>>
  /\ req = NoRequest
  /\ resp = NoResponse
  /\ lang = NoMapping
  /\ eng = NoCall
  /\ client = NoClient
  /\ auth = NoAccounts

Next ==
  \/ \E id \in FreshScanIds, filePaths \in FilePathArrays : PostScanRepositoryFiles(id, filePaths)
  \/ \E id \in DOMAIN repo : RepoMarkProcessing(id)
  \/ \E id \in DOMAIN repo, cloned \in BOOLEAN : RepoClone(id, cloned)
  \/ \E id \in DOMAIN repo : RepoProgress30(id)
  \/ \E id \in DOMAIN repo : RepoScanFile(id)
  \/ \E id \in DOMAIN repo : RepoComplete(id)
  \/ \E id \in DOMAIN repo : RepoSaveVulnerability(id)
  \/ \E id \in DOMAIN repo : RepoCatch(id)
  \/ \E id \in FreshScanIds, upload \in Uploads, sendsLanguage \in BOOLEAN :
        PostScanFile(id, upload, sendsLanguage)
  \/ \E id \in FreshScanIds : InitiateRepositoryScan(id)
  \/ \E id \in DOMAIN sim : UpdateScanProgress(id)
  \/ \E id \in DOMAIN sim, increment \in LargestIncrement : IntervalTick(id, increment)
  \/ \E id \in DOMAIN sim : ProgressWriteLands(id)
  \/ \E id \in DOMAIN sim : FinalizeFind(id)
  \/ \E id \in DOMAIN sim : FinalizeSave(id)
  \/ \E id \in DOMAIN sim : FinalizeComplete(id)
  \/ \E id \in DOMAIN sim : FinalizeCatch(id)
  \/ \E id \in DOMAIN sim : IntervalLastWrite(id)

Spec == Init /\ [][Next]_vars

\* the simulated scans alone, every increment drawn
NextSim ==
  \/ \E id \in FreshScanIds : InitiateRepositoryScan(id)
  \/ \E id \in DOMAIN sim : UpdateScanProgress(id)
  \/ \E id \in DOMAIN sim, increment \in Increments : IntervalTick(id, increment)
  \/ \E id \in DOMAIN sim : ProgressWriteLands(id)
  \/ \E id \in DOMAIN sim : FinalizeFind(id)
  \/ \E id \in DOMAIN sim : FinalizeSave(id)
  \/ \E id \in DOMAIN sim : FinalizeComplete(id)
  \/ \E id \in DOMAIN sim : FinalizeCatch(id)
  \/ \E id \in DOMAIN sim : IntervalLastWrite(id)

SpecSim == Init /\ [][NextSim]_vars

NextLang ==
  \/ \E name \in FileNames : MapOnServer(name)
  \/ \E name \in FileNames, sendsLanguage \in BOOLEAN : MapOnClient(name, sendsLanguage)

SpecLang == Init /\ [][NextLang]_vars

\* two repository scans whose background jobs run at the same time
ConcurrentScanIds == {FirstScanId, [hi |-> 2, lo |-> 9]}

NextConcurrent ==
  \/ \E id \in FreshScanIds \cap ConcurrentScanIds, filePaths \in FilePathArrays :
        StartRepositoryScan(id, filePaths)
  \/ \E id \in DOMAIN repo : RepoMarkProcessing(id)
  \/ \E id \in DOMAIN repo, cloned \in BOOLEAN : RepoClone(id, cloned)
  \/ \E id \in DOMAIN repo : RepoProgress30(id)
  \/ \E id \in DOMAIN repo : RepoScanFile(id)
  \/ \E id \in DOMAIN repo : RepoComplete(id)
  \/ \E id \in DOMAIN repo : RepoSaveVulnerability(id)
  \/ \E id \in DOMAIN repo : RepoCatch(id)

SpecConcurrent == Init /\ [][NextConcurrent]_vars

\* the scan engine alone
InitEngine ==
  /\ scans = <<>>
  /\ vulns = <<>>
  /\ repo = <<>>
  /\ sim = <<>>
  /\ req = NoRequest
  /\ resp = NoResponse
  /\ lang = NoMapping
  /\ eng \in EngineCalls
  /\ client = NoClient
  /\ auth = NoAccounts

NextEngine ==
  \/ ScanText
  \/ ResolveFixTwice

SpecEngine == InitEngine /\ [][NextEngine]_vars

\* the next step of the background job of one repository scan
RepoStep(scanId) ==
  /\ scanId \in DOMAIN repo
  /\ \/ RepoMarkProcessing(scanId)
     \/ \E cloned \in BOOLEAN : RepoClone(scanId, cloned)
     \/ RepoProgress30(scanId)
     \/ RepoScanFile(scanId)
     \/ RepoComplete(scanId)
     \/ RepoSaveVulnerability(scanId)
     \/ RepoCatch(scanId)

\* one repository scan and its background job
NextRepository ==
  \/ \E filePaths \in FilePathArrays : StartRepositoryScan(FirstScanId, filePaths)
  \/ RepoStep(FirstScanId)

\* git clone returns, the file reads and scanCode return or throw, and the
\* database writes return: the job's next step is not put off for ever
SpecRepository == Init /\ [][NextRepository]_vars /\ WF_vars(RepoStep(FirstScanId))

\* the routes of /api/auth
NextAuth ==
  \/ \E email \in Emails, password \in Passwords, code \in OtpCodes, mailed \in BOOLEAN :
        PostRegister(email, password, code, mailed)
  \/ \E email \in Emails, otp \in OtpValues : PostVerifyOtp(email, otp)
  \/ \E email \in Emails, password \in Passwords : PostLogin(email, password)
  \/ ClockTick

SpecAuth == Init /\ [][NextAuth]_vars

\* one apply-fixes request
InitFixes ==
  /\ scans = <<>>
  /\ vulns = <<>>
  /\ repo = <<>>
  /\ sim = <<>>
  /\ req \in ApplyFixesRequests
  /\ resp = NoResponse
  /\ lang = NoMapping
  /\ eng = NoCall
  /\ client = NoClient
  /\ auth = NoAccounts

NextFixes == \E cloned \in BOOLEAN : PostApplyFixes(cloned)

SpecFixes == InitFixes /\ [][NextFixes]_vars

\* the browser and the background job of the scan it starts
InitClient ==
  /\ scans = <<>>
  /\ vulns = <<>>
  /\ repo = <<>>
  /\ sim = <<>>
  /\ req = NoRequest
  /\ resp = NoResponse
  /\ lang = NoMapping
  /\ eng = NoCall
  /\ client = FormRendered
  /\ auth = NoAccounts

NextClient ==
  \/ \E filePaths \in SelectedFiles, started \in BOOLEAN : HandleRepoScan(filePaths, started)
  \/ RepoStep(FirstScanId)
  \/ \E p \in Pollers : PollTick(p)
  \/ \E p \in Pollers, ok \in BOOLEAN : StatusResponse(p, ok)
  \/ OpenResults
  \/ \E ok \in BOOLEAN : InitResults(ok)
  \/ UnmountResults

\* the job's awaited calls return, the timers fire while they are set, and
\* every request is answered, with a status or with an error
SpecClient ==
  /\ InitClient
  /\ [][NextClient]_vars
  /\ WF_vars(RepoStep(FirstScanId))
  /\ \A p \in Pollers : WF_vars(PollTick(p))
  /\ \A p \in Pollers : WF_vars(\E ok \in BOOLEAN : StatusResponse(p, ok))
  /\ WF_vars(\E ok \in BOOLEAN : InitResults(ok))

\* the updater of geminiAI.js on its own: the state after
\* initiateRepositoryScan has stored the record of one scan
InitVariant ==
  /\ \E scanId \in ScanIds :
       /\ scans = [s \in {scanId} |->
                     [status |-> "initiated", progress |-> 0,
                      summary |-> UndefinedSummary, kind |-> "simulated"]]
       /\ sim = [s \in {scanId} |-> VariantJob]
  /\ vulns = <<>>
  /\ repo = <<>>
  /\ req = NoRequest
  /\ resp = NoResponse
  /\ lang = NoMapping
  /\ eng = NoCall
  /\ client = NoClient
  /\ auth = NoAccounts

NextVariant ==
  \/ \E id \in DOMAIN sim : VariantUpdateScanProgress(id)
  \/ \E id \in DOMAIN sim, increment \in LargestIncrement : VariantIntervalTick(id, increment)
  \/ \E id \in DOMAIN sim, k \in 1..MaxCallbacks : VariantWriteLands(id, k)
  \/ \E id \in DOMAIN sim, k \in 1..MaxCallbacks : VariantFinalizeFind(id, k)
  \/ \E id \in DOMAIN sim, k \in 1..MaxCallbacks : VariantFinalizeSave(id, k)
  \/ \E id \in DOMAIN sim, k \in 1..MaxCallbacks : VariantFinalizeComplete(id, k)
  \/ \E id \in DOMAIN sim, k \in 1..MaxCallbacks, generated \in BOOLEAN :
        FetchFixSuggestions(id, k, generated)
  \/ \E id \in DOMAIN sim, k \in 1..MaxCallbacks : VariantFinalizeCatch(id, k)

SpecVariant == InitVariant /\ [][NextVariant]_vars

\* the ids of scans that start with the same four hex digits
SamePrefixScanIds == {id \in ScanIds : id.hi = FirstScanId.hi}

\* the updater of repoScanner.js on its own: the state after
\* initiateRepositoryScan has stored the record of one scan, in a database
\* that is empty or holds a document of another scan
InitUpdater ==
  /\ \E scanId \in {FirstScanId} :
       /\ scans = [s \in {scanId} |->
                     [status |-> "initiated", progress |-> 0,
                      summary |-> UndefinedSummary, kind |-> "simulated"]]
       /\ sim = [s \in {scanId} |->
                   [pc |-> "timeout", progress |-> 0, ticks |-> 0, i |-> 0, writes |-> <<>>]]
       /\ \E earlier \in SamePrefixScanIds \ {scanId} :
            vulns \in { <<>>, <<GeneratedVulnerability(earlier, 0)>> }
  /\ repo = <<>>
  /\ req = NoRequest
  /\ resp = NoResponse
  /\ lang = NoMapping
  /\ eng = NoCall
  /\ client = NoClient
  /\ auth = NoAccounts

NextUpdater ==
  \/ \E id \in DOMAIN sim : UpdateScanProgress(id)
  \/ \E id \in DOMAIN sim, increment \in Increments : IntervalTick(id, increment)
  \/ \E id \in DOMAIN sim : ProgressWriteLands(id)
  \/ \E id \in DOMAIN sim : FinalizeFind(id)
  \/ \E id \in DOMAIN sim : FinalizeSave(id)
  \/ \E id \in DOMAIN sim : FinalizeComplete(id)
  \/ \E id \in DOMAIN sim : FinalizeCatch(id)
  \/ \E id \in DOMAIN sim : IntervalLastWrite(id)

\* the timers fire and the awaited database calls return: no step of the
\* updater that can be taken is put off for ever
SpecUpdater == InitUpdater /\ [][NextUpdater]_vars /\ WF_vars(NextUpdater)

----------------------------------------------------------------------------
\* Properties

\* the Vulnerability records stored for a scan
StoredFor(scanId) == FindVulnerabilities(vulns, scanId)

\* the background run of the scan has returned and its writes have landed
RunFinished(scanId) ==
  /\ scanId \in DOMAIN repo => repo[scanId].pc = "done"
  /\ scanId \in DOMAIN sim => sim[scanId].pc = "done" /\ sim[scanId].writes = <<>>

\* the last exchange was a POST /api/scan/file answered with the given status
FileScanAnswered(status) == resp.route = "scan/file" /\ resp.status = status

\* C1: a repository scan (scanRepository or the simulated scan of
\* repoScanner.js) whose run has finished with status 'completed' has a
\* stored summary whose total is the number of records stored for the scan
\* and whose severity counts are the numbers of stored records of each
\* severity.
C1_SummaryConsistency ==
  \A id \in DOMAIN scans :
    (scans[id].kind \in {"repository", "simulated"}
       /\ RunFinished(id) /\ scans[id].status = "completed")
    => scans[id].summary = SummaryOf(StoredFor(id))

\* C2: whenever the stored status of a scanRepository scan is 'completed',
\* the number of records stored for the scan is the stored
\* summary.totalVulnerabilities.
C2_NoPartialResults ==
  \A id \in DOMAIN scans :
    (scans[id].kind = "repository" /\ scans[id].status = "completed")
    => Len(StoredFor(id)) = scans[id].summary.totalVulnerabilities

\* C3: after POST /api/scan/file has answered 200, the summary stored on the
\* Scan record equals the summary of the response, and their total is the
\* number of records saved for the scan.
C3_UploadSummariesAgree ==
  FileScanAnswered(200) =>
    /\ scans[resp.scanId].summary = resp.summary
    /\ resp.summary.totalVulnerabilities = Len(StoredFor(resp.scanId))

\* C4: no stored record, no finding of a results response and no finding of
\* a file-scan response has type 'No Issues Detected'; a file without real
\* findings is answered with an empty list and stores no record, and a
\* repository scan that found nothing has an empty results list.
C4_SentinelIsNeverAFinding ==
  /\ \A k \in 1..Len(vulns) : vulns[k].type # Sentinel
  /\ \A id \in DOMAIN scans :
       LET found == GetScanResults(id).vulnerabilities
       IN /\ \A k \in 1..Len(found) : found[k].type # Sentinel
          /\ (id \in DOMAIN repo /\ repo[id].pc = "done"
                /\ repo[id].error = "none" /\ repo[id].found = 0)
             => found = <<>>
  /\ FileScanAnswered(200) =>
       /\ \A k \in 1..Len(resp.vulnerabilities) : resp.vulnerabilities[k].type # Sentinel
       /\ req.code = CleanCode =>
            resp.vulnerabilities = <<>> /\ StoredFor(resp.scanId) = <<>>

\* a clean file was uploaded after a repository scan that found nothing
C4_Witness ==
  /\ FileScanAnswered(200)
  /\ req.code = CleanCode
  /\ resp.vulnerabilities = <<>>
  /\ \E id \in DOMAIN repo :
       /\ repo[id].pc = "done" /\ repo[id].error = "none" /\ repo[id].found = 0
       /\ scans[id].status = "completed"

\* the file of a finding or of a stored record of a repository scan
EmptyRepoFile(file) == file \in DOMAIN RepoFiles /\ RepoFiles[file] = EmptyCode

\* an empty file of a repository scan gives no finding and no error: no
\* collected finding and no stored record is located in an empty file, and
\* the read that throws is never the read of an empty file
EmptyFileInRepositoryScan ==
  /\ \A id \in DOMAIN repo :
       /\ \A k \in 1..Len(repo[id].vulnerabilities) :
            ~EmptyRepoFile(repo[id].vulnerabilities[k].file)
       /\ (repo[id].pc = "catch" /\ repo[id].error = "read")
          => ~EmptyRepoFile(repo[id].filePaths[repo[id].totalProcessed + 1])
  /\ \A k \in 1..Len(vulns) :
       scans[vulns[k].scanId].kind = "repository" => ~EmptyRepoFile(vulns[k].file)

\* C5 as stated: an empty file is scanned without an error, through POST
\* /api/scan/file (answer 200, no findings, all-zero summary) and as one file
\* of a repository scan.
C5_EmptyCodeIsValidInput ==
  /\ EmptyFileInRepositoryScan
  /\ (resp.route = "scan/file" /\ req.code = EmptyCode) =>
       /\ resp.status = 200
       /\ resp.vulnerabilities = <<>>
       /\ resp.summary = ZeroSummary

\* C5, amended: as one file of a repository scan an empty file gives no
\* finding and no error; POST /api/scan/file answers an empty or
\* white-space-only file with status 400, "File is empty".
C5_EmptyFileRejectedOnUpload ==
  /\ EmptyFileInRepositoryScan
  /\ (resp.route = "scan/file" /\ req.code \in {EmptyCode, BlankCode}) =>
       /\ resp.status = 400
       /\ resp.message = "Failed to read file: File is empty"

\* an empty file was uploaded after a repository scan of empty files only
\* had completed
C5_Witness ==
  /\ FileScanAnswered(400)
  /\ req.code = EmptyCode
  /\ \E id \in DOMAIN repo :
       /\ repo[id].pc = "done" /\ repo[id].error = "none" /\ repo[id].found = 0
       /\ scans[id].status = "completed" /\ scans[id].summary = ZeroSummary
       /\ StoredFor(id) = <<>>

\* the extensions of the supported mapping, as the claim lists them
SupportedExtensions ==
  {"js", "jsx", "ts", "tsx", "py", "java", "go", "rb", "php", "cs", "c", "cpp"}

\* the keys every object literal inherits
InheritedKeys == {"constructor", "__proto__"}

\* the extension of the mapped file name as its caller computes it
CallerExtension ==
  IF lang.caller = "scanRepository"
  THEN ToLowerCase(ExtName(lang.name))
  ELSE ToLowerCase(lang.name[Len(lang.name)])

\* C6 as stated: for a file whose extension is outside the supported
\* mapping, the language handed to scanCode is 'unknown'.
C6_UnknownForUnmappedExtension ==
  (lang.caller # "none" /\ CallerExtension \notin SupportedExtensions)
  => lang.language = "unknown"

\* C6, amended: for a file whose extension (as the caller computes it) is
\* outside the supported mapping and is not an inherited key, the language
\* handed to scanCode is 'javascript', and it is never 'unknown'.
C6_JavascriptForUnmappedExtension ==
  /\ (lang.caller # "none"
        /\ CallerExtension \notin (SupportedExtensions \cup InheritedKeys))
     => lang.language = "javascript"
  /\ lang.caller # "none" => lang.language # "unknown"

\* scanRepository has mapped x.rs
C6_Witness ==
  /\ lang.caller = "scanRepository"
  /\ lang.name = <<"x", "rs">>
  /\ lang.language = "javascript"

\* C7: a scanRepository run that ended because the clone or the read of a
\* file threw leaves the scan 'failed' with progress 0 and without any stored
\* record.
C7_FailureFailsWholeScan ==
  \A id \in DOMAIN repo :
    (repo[id].pc = "done" /\ repo[id].error \in {"clone", "read"})
    => /\ scans[id].status = "failed"
       /\ scans[id].progress = 0
       /\ StoredFor(id) = <<>>

\* a read threw after an earlier file had given findings
C7_Witness ==
  \E id \in DOMAIN repo :
    /\ repo[id].pc = "done" /\ repo[id].error = "read" /\ repo[id].found > 0
    /\ scans[id].status = "failed"

\* C8 as stated: every stored record has status 'open' (no action of the
\* model changes a stored record, so this is its status at creation).
C8_OpenAtCreation == \A k \in 1..Len(vulns) : vulns[k].status = "open"

\* C8, amended: the records saved by scanRepository and by POST
\* /api/scan/file are created 'open'; the i-th record of finalizeScan is
\* created 'fixed' when i is a multiple of 5 and 'open' otherwise.
C8_OpenExceptEveryFifthGenerated ==
  \A k \in 1..Len(vulns) :
    IF scans[vulns[k].scanId].kind = "simulated"
    THEN vulns[k].status = (IF vulns[k].vulnerabilityId[3] % 5 = 0 THEN "fixed" ELSE "open")
    ELSE vulns[k].status = "open"

\* finalizeScan has saved a 'fixed' and an 'open' record, and another scan
\* path has saved a record
C8_Witness ==
  /\ \E k \in 1..Len(vulns) :
       scans[vulns[k].scanId].kind = "simulated" /\ vulns[k].status = "fixed"
  /\ \E k \in 1..Len(vulns) :
       scans[vulns[k].scanId].kind = "simulated" /\ vulns[k].status = "open"
  /\ \E k \in 1..Len(vulns) : scans[vulns[k].scanId].kind \in {"repository", "file"}

\* C9: the vulnerabilityIds of the records stored for one scan are pairwise
\* distinct, the records of different files of one repository scan included.
C9_DistinctIdsPerScan ==
  \A j, k \in 1..Len(vulns) :
    (j # k /\ vulns[j].scanId = vulns[k].scanId)
    => vulns[j].vulnerabilityId # vulns[k].vulnerabilityId

\* a repository scan has stored the findings of two different files
C9_Witness ==
  \E j, k \in 1..Len(vulns) :
    /\ vulns[j].scanId = vulns[k].scanId
    /\ scans[vulns[j].scanId].kind = "repository"
    /\ vulns[j].file # vulns[k].file
    /\ repo[vulns[j].scanId].pc = "done" /\ repo[vulns[j].scanId].error = "none"

\* the entries of the last scanCode call other than the sentinel
EngineFindings == SelectSeq(eng.vulnerabilities, LAMBDA v : v.type # Sentinel)

\* the (ruleId, line) of a finding: the id is derived from them
RuleAndLine(finding) == <<finding.id[3], finding.line>>

\* C11: in the result of every scanCode call no two findings share
\* (ruleId, line), and the (ruleId, line) pairs of the findings are exactly
\* those of the raw matches: several matches of one rule on one line give one
\* finding, distinct rules on one line and one rule on distinct lines stay
\* distinct findings.
C11_DedupPerRuleAndLine ==
  (eng.op = "scanCode" /\ eng.returned) =>
    /\ \A j, k \in 1..Len(EngineFindings) :
         j # k => RuleAndLine(EngineFindings[j]) # RuleAndLine(EngineFindings[k])
    /\ {RuleAndLine(EngineFindings[k]) : k \in 1..Len(EngineFindings)}
         = {<<eng.raw[k].ruleId, eng.raw[k].line>> : k \in 1..Len(eng.raw)}

\* a text with two matches of one rule on one line, two rules on one line
\* and one rule on two lines
C11_Witness ==
  /\ eng.op = "scanCode" /\ eng.returned
  /\ \E j, k \in 1..Len(eng.raw) :
       j # k /\ eng.raw[j].ruleId = eng.raw[k].ruleId /\ eng.raw[j].line = eng.raw[k].line
  /\ \E j, k \in 1..Len(EngineFindings) :
       /\ EngineFindings[j].line = EngineFindings[k].line
       /\ EngineFindings[j].id[3] # EngineFindings[k].id[3]
  /\ \E j, k \in 1..Len(EngineFindings) :
       /\ EngineFindings[j].line # EngineFindings[k].line
       /\ EngineFindings[j].id[3] = EngineFindings[k].id[3]

\* the text of the last scanCode call holds the token on some line
TextHolds(token) ==
  \E n \in 1..Len(eng.code) : \E p \in 1..Len(eng.code[n]) : eng.code[n][p] = token

\* C12: every finding of a scanCode call with language L comes from a rule
\* whose languages set is empty or contains L; the rule restricted to
\* {python} gives no finding when L is javascript; the rule with the empty
\* languages set gives its finding for every language, 'unknown' included.
C12_LanguageScoping ==
  (eng.op = "scanCode" /\ eng.returned) =>
    /\ \A k \in 1..Len(EngineFindings) :
         LET rule == RuleById(EngineFindings[k].id[3])
         IN rule.languages = {} \/ eng.language \in rule.languages
    /\ eng.language = "javascript" =>
         \A k \in 1..Len(EngineFindings) : EngineFindings[k].id[3] # "unsafe-deserialization"
    /\ TextHolds("sqli") =>
         \E k \in 1..Len(EngineFindings) : EngineFindings[k].id[3] = "sql-injection"

\* a text that holds the patterns of all three rules, scanned as 'unknown':
\* only the rule of every language has findings
C12_Witness ==
  /\ eng.op = "scanCode" /\ eng.returned
  /\ eng.language = "unknown"
  /\ TextHolds("sqli") /\ TextHolds("pickle") /\ TextHolds("cookie")
  /\ EngineFindings # <<>>
  /\ \A k \in 1..Len(EngineFindings) : EngineFindings[k].id[3] = "sql-injection"

RECURSIVE FindingsAlone(_, _)
\* the findings of the first k files of filePaths, each file scanned by a
\* call of its own
FindingsAlone(filePaths, k) ==
  IF k = 0 THEN <<>>
  ELSE FindingsAlone(filePaths, k - 1)
         \o CollectFindings(ScanCode(RepoFiles[filePaths[k]], ServerLanguage(filePaths[k])),
                            filePaths[k])

\* C14: while scanRepository jobs run at the same time, the findings each
\* job holds are those of its own files scanned alone, in the order of its
\* filePaths, whatever the other jobs do, and the summary it writes is the
\* summary of those findings.
C14_ConcurrentScansIndependent ==
  \A id \in DOMAIN repo :
    LET job == repo[id]
    IN /\ job.pc \in {"start", "clone", "cloned", "files", "summary", "save", "catch"}
          => job.vulnerabilities = FindingsAlone(job.filePaths, job.totalProcessed)
       /\ (job.pc = "save" /\ scans[id].status = "completed")
          => scans[id].summary = SummaryOf(FindingsAlone(job.filePaths, Len(job.filePaths)))

\* two jobs are in their file loops at the same time, each holding findings
C14_Witness ==
  \E a, b \in DOMAIN repo :
    /\ a # b
    /\ repo[a].pc = "files" /\ repo[a].vulnerabilities # <<>>
    /\ repo[b].pc = "files" /\ repo[b].vulnerabilities # <<>>
    /\ repo[a].filePaths # repo[b].filePaths

\* the total order of the severities: low < medium < high < critical
SeverityLevel ==
  [sev \in Severities |->
     CASE sev = "low" -> 1 [] sev = "medium" -> 2 [] sev = "high" -> 3 [] sev = "critical" -> 4]

\* no entry of the list precedes an entry of strictly higher severity
HighestSeverityFirst(list) ==
  \A j, k \in 1..Len(list) :
    j < k => SeverityLevel[list[j].severity] >= SeverityLevel[list[k].severity]

\* C15: in the topVulnerabilities list of GET /api/dashboard and in that of
\* getUserDashboardData no entry precedes an entry of strictly higher
\* severity.
C15_TopVulnerabilitiesBySeverity ==
  /\ HighestSeverityFirst(DashboardTopVulnerabilities)
  /\ HighestSeverityFirst(UserDashboardTopVulnerabilities)

\* the progress updater of the scan has called finalizeScan
ReachedFinalizeScan(scanId) ==
  sim[scanId].pc \in {"finalize", "generate", "summary", "catch", "lastwrite", "done"}

\* C16: no save of finalizeScan is rejected as a duplicate (the job never
\* enters the catch of finalizeScan, whose only cause in the model is a
\* rejected save) and no simulated scan is marked 'failed'; the ids
\* generated for two different scans never coincide.
C16_GeneratedIdsNeverCollide ==
  /\ \A id \in DOMAIN sim : sim[id].pc # "catch"
  /\ \A id \in DOMAIN scans : scans[id].kind = "simulated" => scans[id].status # "failed"
  /\ \A a, b \in DOMAIN sim :
       (a # b /\ ReachedFinalizeScan(a) /\ ReachedFinalizeScan(b))
       => \A i \in 0..(VulnerabilityCount(a) - 1), j \in 0..(VulnerabilityCount(b) - 1) :
            GeneratedId(a, i) # GeneratedId(b, j)


\* the statuses after which the clients stop polling
TerminalStatuses == {"completed", "failed"}

\* C17: once the stored status of a scan is 'completed' or 'failed', no
\* later write changes it
C17_TerminalStatusIsFinal ==
  [][\A id \in DOMAIN scans :
       scans[id].status \in TerminalStatuses => scans'[id].status = scans[id].status]_vars


\* finalizeScan of the scan threw: its loop stopped before the last document
FinalizeScanFailed(scanId) ==
  /\ sim[scanId].pc \in {"catch", "lastwrite", "done"}
  /\ sim[scanId].i < VulnerabilityCount(scanId)

\* C18: after the progress updater has finished, a scan whose finalizeScan
\* threw is stored with status 'failed'
C18_FailedFinalizationIsFailed ==
  \A id \in DOMAIN sim :
    (sim[id].pc = "done" /\ FinalizeScanFailed(id)) => scans[id].status = "failed"


\* C19: the progress updater invokes finalizeScan at most once per scan
C19_FinalizeScanRunsOnce ==
  \A id \in DOMAIN sim : Len(sim[id].runs) <= 1


\* the most ticks a scan can need: 20 increments of at least 5
MaxTicks == 20

\* C20: in the updater of repoScanner.js each tick raises progress by 5..19
\* and caps it at 100; every stored progress is in 0..100; a status stored
\* or written with a progress below 100 is not 'completed' and the one
\* written is 'processing'; a scan needs at most 20 ticks, and progress 100
\* with status 'completed' is reached
C20_BoundedSimulatedScan ==
  /\ [](\A id \in DOMAIN sim :
         /\ sim[id].ticks <= MaxTicks
         /\ scans[id].progress \in 0..100
         /\ scans[id].progress < 100 => scans[id].status # "completed"
         /\ \A k \in 1..Len(sim[id].writes) :
              /\ sim[id].writes[k].progress \in 0..99
              /\ sim[id].writes[k].status = "processing")
  /\ [][\A id \in DOMAIN sim :
         sim'[id].ticks # sim[id].ticks =>
           /\ sim'[id].ticks = sim[id].ticks + 1
           /\ \E increment \in Increments :
                sim'[id].progress = IF sim[id].progress + increment < 100
                                    THEN sim[id].progress + increment ELSE 100]_vars
  /\ <>(\A id \in DOMAIN sim :
          scans[id].status = "completed" /\ scans[id].progress = 100)

\* twenty ticks of the smallest increment, and the scan is stored completed
C20_Witness ==
  \E id \in DOMAIN sim :
    /\ sim[id].ticks = MaxTicks
    /\ scans[id].status = "completed"
    /\ scans[id].progress = 100


\* the progress scanRepository has last written at each point of a run
\* that met no error
ProgressAtStage(job) ==
  CASE job.pc = "start" -> 0
    [] job.pc \in {"clone", "cloned"} -> 10
    [] job.pc \in {"files", "summary"} ->
         30 + ((60 * job.totalProcessed) \div Len(job.filePaths))
    [] OTHER -> 100

\* C21: scanRepository writes progress 0, 10, 30, 30 + floor(60k/n) after
\* the k-th of n files (90 after the last) and 100 with status 'completed';
\* every value is in 0..100, a write never lowers the progress unless the
\* run has failed, and the write of a failed run stores 0
C21_RepositoryProgressMonotone ==
  /\ [](\A id \in DOMAIN repo :
         /\ scans[id].progress \in 0..100
         /\ (repo[id].error = "none" /\ repo[id].pc # "catch")
              => scans[id].progress = ProgressAtStage(repo[id])
         /\ repo[id].pc = "summary" => scans[id].progress = 90
         /\ scans[id].progress = 100 => scans[id].status = "completed"
         /\ (repo[id].pc = "done" /\ repo[id].error # "none")
              => (scans[id].progress = 0 /\ scans[id].status = "failed"))
  /\ [][\A id \in DOMAIN repo :
         scans'[id].progress < scans[id].progress =>
           (repo'[id].error # "none" /\ scans'[id].progress = 0)]_vars

\* a scan of MaxFiles files whose last file has just been scanned
C21_Witness ==
  \E id \in DOMAIN repo :
    /\ repo[id].pc = "summary"
    /\ repo[id].totalProcessed = MaxFiles
    /\ scans[id].progress = 90


\* C22: every scan created by POST /api/scan/repository/files eventually
\* has the stored status 'completed' or 'failed'
C22_RepositoryScanTerminates ==
  \A id \in ScanIds :
    (id \in DOMAIN scans) ~> (id \in DOMAIN scans /\ scans[id].status \in TerminalStatuses)

\* a scan whose clone failed has returned and is stored 'failed'
C22_Witness ==
  \E id \in DOMAIN repo :
    /\ repo[id].pc = "done"
    /\ repo[id].error = "clone"
    /\ scans[id].status = "failed"


\* C23: the callback of one pollScanStatus call receives a terminal status
\* at most once
C23_TerminalStatusDeliveredOnce ==
  \A p \in Pollers : client[p].terminal <= 1


\* C24: after ScanResults has unmounted, the poller it started sends no
\* status request and does not invoke the progress callback
C24_NoPollingAfterUnmount ==
  [][(client.page = "left" /\ client'.results # client.results)
       => client'.results.event \notin {"tick", "callback"}]_vars


\* C25: after handleRepoScan has set isScanning, isScanning eventually
\* becomes false
C25_FormLeavesScanningState ==
  (client.isScanning) ~> (~client.isScanning)


\* the entries of the request that name line k
EntriesForLine(k) ==
  {j \in 1..Len(req.vulnerabilities) : req.vulnerabilities[j].lineNumber = k}

DistinctLineNumbers ==
  \A i, j \in 1..Len(req.vulnerabilities) :
    i # j => req.vulnerabilities[i].lineNumber # req.vulnerabilities[j].lineNumber

\* the lines the fixed file is to have: in the order of the original, each
\* targeted line replaced by the lines of its fix
RECURSIVE ExpectedLines(_, _)
ExpectedLines(lines, k) ==
  IF k > Len(lines) THEN <<>>
  ELSE (IF EntriesForLine(k) = {}
        THEN <<lines[k]>>
        ELSE SplitLines(req.vulnerabilities[CHOOSE j \in EntriesForLine(k) : TRUE].fix))
       \o ExpectedLines(lines, k + 1)

\* C26: for pairwise distinct line numbers, fixedCode is the original with
\* exactly each in-range targeted line replaced by its fix, every other line
\* unchanged and in order; out-of-range entries change nothing; originalCode
\* is the file as it was read
C26_FixesReplaceTargetedLines ==
  (req.route = "apply-fixes" /\ resp.status = 200 /\ DistinctLineNumbers)
    => /\ resp.originalCode = req.file
       /\ SplitLines(resp.fixedCode) = ExpectedLines(SplitLines(req.file), 1)

\* two lines of the file are targeted, the upper one by a fix of two lines
C26_Witness ==
  /\ req.route = "apply-fixes"
  /\ resp.status = 200
  /\ DistinctLineNumbers
  /\ \E i, j \in 1..Len(req.vulnerabilities) :
       /\ req.vulnerabilities[i].lineNumber = 1
       /\ req.vulnerabilities[i].fix = <<"y", LF, "z">>
       /\ req.vulnerabilities[j].lineNumber = 2
       /\ Len(SplitLines(req.file)) >= 2
  /\ resp.fixedCode # req.file


\* C27: login answers with a token only for an existing, verified user and
\* the matching password; isVerified becomes true only in a verify-otp
\* request that presents the otp of a record stored for that email and not
\* yet expired, and that record is deleted by the request
C27_LoginGatedByVerification ==
  /\ []((auth.answer.route = "login" /\ auth.answer.status = 200)
          => /\ auth.answer.email \in DOMAIN auth.users
             /\ auth.users[auth.answer.email].isVerified
             /\ Compare(auth.answer.password, auth.users[auth.answer.email].password))
  /\ [][\A email \in DOMAIN auth.users :
         (~auth.users[email].isVerified /\ auth'.users[email].isVerified)
         => /\ auth'.answer.route = "verify-otp"
            /\ auth'.answer.status = 200
            /\ auth'.answer.email = email
            /\ auth'.answer.otp.op = "eq"
            /\ \E k \in 1..Len(auth.otps) :
                 /\ auth.otps[k].email = email
                 /\ auth.otps[k].otp = auth'.answer.otp.value
                 /\ auth.otps[k].expiresAt > auth.now
                 /\ auth'.otps = RemoveAt(auth.otps, k)]_vars

====
